---- MODULE Spec2Model ----
(***************************************************************************)
(* Model of the WSI tiling pipeline of DataPipe/pipeline.py:               *)
(* process_one_slide (the Slide Processor) and main (the Dataset           *)
(* Orchestrator), together with the output tree they write.                *)
(*                                                                         *)
(* A file is the sequence of its lines; line 0 is the CSV header and a     *)
(* line t > 0 is the record of tile t of the slide.  A tile image is       *)
(* mapped to the number of the run that wrote it, 0 when it is absent.     *)
(*                                                                         *)
(* Spec follows main and its slides.  TileSpec follows one slide on the    *)
(* pixels of its ROI: generate_tiles, the level-0 locations, the Persist   *)
(* loop, prepare_single_slide_dataset and TileEncodingDataset.             *)
(***************************************************************************)
EXTENDS Integers, Sequences, FiniteSets, TLC

NSlides == 2
MaxTiles == 2
MaxRuns == 2

Slides == 1..NSlides
Tiles == 1..MaxTiles
Names == 1..NSlides
Kinds == {"original", "roi", "roi_tiles"}
Header == 0
MetadataKeySets == {0, 1}

VARIABLES
    imageOK,          \* slide -> the file at sample["image"] exists
    imagePathKey,     \* slide -> "nokey" | "ok" | "missing": sample["image_path"]
    imageName,        \* slide -> Path(sample["image"]).name
    metadata,         \* slide -> the key set of sample["metadata"], by its number
    mainpc,           \* position of main
    mainErr,          \* exception that left main
    run,              \* number of calls of main so far
    overwrite, parallel, n_slides,
    removed,          \* this call of main deleted an existing output tree
    poolAlive,        \* the multiprocessing pool has live workers
    order,            \* slides in the order process_one_slide returned, this run
    pc,               \* slide -> position of process_one_slide
    i, n_tiles, n_failed_tiles,
    hist,             \* slide -> how the call that wrote its directory ended
    output_dir,       \* root_output_dir exists
    output_tiles_dir, \* slide -> <output_dir>/<slide_id>/ exists
    dataset_csv_file, \* slide -> lines of <slide_id>/dataset.csv
    failed_tiles_file,\* slide -> lines of <slide_id>/failed_tiles.csv
    csvRun,           \* slide -> run that opened the two csv files
    png,              \* slide -> tile -> run that wrote the tile image
    thumbs,           \* <<name, kind>> -> run that wrote the thumbnail
    merged,           \* rows <<slide, tile>> of <output_dir>/dataset.csv
    mergedRun,        \* run that wrote the merged manifest, 0 when absent
    writes,           \* <<slide, path>> written by process_one_slide, this run
    warnings,         \* <<slide_id, n_failed_tiles>> of the "is incomplete" warnings, this run
    slide_image,      \* the ROI the loader returns: rows of pixel luminances
    tile_size, foreground_threshold,
    occupancy_threshold, \* <<numerator, denominator>>
    gt,               \* the locals of generate_tiles at its return
    origin, scale,    \* loaded_WSI_sample["origin"], ["scale"] = <<numerator, denominator>>
    tile_locations,   \* the level-0 locations of the surviving tiles
    single_pc,        \* position of prepare_single_slide_dataset
    single_err,       \* exception that left prepare_single_slide_dataset
    coords,           \* the coords TileEncodingDataset.__getitem__ returned
    all_wsi_folders,  \* the slide_id column of task_description_csv, in row order
    mode, test_ratio, \* test_ratio = <<numerator, denominator>>
    K,                \* the argument k of build_data_split_for_csv
    shuffled_patients,
    index,            \* the value of index when the loop at line 123 is left
    test_data, trainval_samples,
    folds,            \* fold -> <<train_idx, val_idx>>, as group_kfold.split yields them
    fold,             \* the fold the loop at line 142 is about to write
    task_csv,         \* column -> row -> value: the columns added to task_description_csv
    split_pc,         \* position of build_data_split_for_csv
    split_err,        \* exception that left build_data_split_for_csv
    df,               \* label -> the keys of df[label].value_counts(), in their order
    max_possible_values,
    default_one_hot_table, \* the object bound to the default of one_hot_table
    default_all_task_dict, \* the object bound to the default of all_task_dict
    calls,            \* the calls of build_task_config_settings so far, with their outcomes
    window_size,
    dist_initialized, \* is_dist_avail_and_initialized()
    deque, count, total, \* process -> the fields of its SmoothedValue
    updates,          \* process -> the <<value, n>> of its update calls so far
    syncs             \* number of synchronize_between_processes calls so far

inputs == <<imageOK, imagePathKey, imageName, metadata>>
mainvars == <<mainpc, mainErr, run, overwrite, parallel, n_slides, removed, poolAlive, order>>
locals == <<pc, i, n_tiles, n_failed_tiles, hist>>
slidefs == <<output_tiles_dir, dataset_csv_file, failed_tiles_file, csvRun, png>>
rootfs == <<output_dir, thumbs, merged, mergedRun>>
tilevars == <<slide_image, tile_size, foreground_threshold, occupancy_threshold, gt,
              origin, scale, tile_locations, single_pc, single_err, coords>>
splitvars == <<all_wsi_folders, mode, test_ratio, K, shuffled_patients, index, test_data,
               trainval_samples, folds, fold, task_csv, split_pc, split_err>>
taskvars == <<df, max_possible_values, default_one_hot_table, default_all_task_dict, calls>>
metervars == <<window_size, dist_initialized, deque, count, total, updates, syncs>>
toolvars == <<splitvars, taskvars, metervars>>
pipevars == <<inputs, mainvars, locals, slidefs, rootfs, writes, warnings, tilevars>>
vars == <<pipevars, toolvars>>

InProgress == {"load", "persist"}
Returned == {"skipped", "completed", "failures"}

\* dataset = Dataset(slides_dataset)[:n_slides]
Selected == {s \in Slides : s <= n_slides}

slide_id(s) == s

\* the paths process_one_slide writes
CsvPath(s) == <<"slide", slide_id(s), "dataset.csv", 0>>
FailedPath(s) == <<"slide", slide_id(s), "failed_tiles.csv", 0>>
TilePath(s, t) == <<"slide", slide_id(s), "tile", t>>
ThumbPath(s, kind) == <<"thumbnails", imageName[s], kind, 0>>

\* the data rows of a manifest: every line after the header
Rows(f) == IF Len(f) <= 1 THEN <<>> ELSE Tail(f)
RowSet(f) == {f[k] : k \in 2..Len(f)}

\* no pixel data is followed: the run is followed slide by slide
NoPixels ==
    /\ slide_image = <<>> /\ tile_size = 0
    /\ foreground_threshold = 0 /\ occupancy_threshold = <<0, 1>>
    /\ gt = <<>> /\ origin = <<0, 0>> /\ scale = <<1, 1>> /\ tile_locations = <<>>
    /\ single_pc = "none" /\ single_err = "none" /\ coords = <<>>

\* build_data_split_for_csv is not called
NoSplit ==
    /\ all_wsi_folders = <<>> /\ mode = "TCGA" /\ test_ratio = <<1, 5>> /\ K = 1
    /\ shuffled_patients = <<>> /\ index = 0
    /\ test_data = <<>> /\ trainval_samples = <<>>
    /\ folds = <<>> /\ fold = 0
    /\ task_csv = [c \in {} |-> <<>>]
    /\ split_pc = "none" /\ split_err = "none"

\* build_task_config_settings is not called
NoTask ==
    /\ df = [l \in {} |-> <<>>] /\ max_possible_values = 100
    /\ default_one_hot_table = [l \in {} |-> <<>>]
    /\ default_all_task_dict = [l \in {} |-> ""]
    /\ calls = <<>>

\* no SmoothedValue exists
NoMeters ==
    /\ window_size = 20 /\ dist_initialized = FALSE
    /\ deque = <<>> /\ count = <<>> /\ total = <<>> /\ updates = <<>>
    /\ syncs = 0

Init ==
    /\ NoPixels /\ NoSplit /\ NoTask /\ NoMeters
    /\ imageOK \in [Slides -> BOOLEAN]
    /\ imagePathKey \in [Slides -> {"nokey", "ok", "missing"}]
    /\ Cardinality({s \in Slides : ~imageOK[s] \/ imagePathKey[s] # "ok"}) <= 1
    /\ imageName \in {f \in [Slides -> Names] : \A s \in Slides : f[s] \in {1, s}}
    /\ metadata \in [Slides -> MetadataKeySets]
    /\ metadata[1] = 0
    /\ \/ \A s \in Slides : metadata[s] = 0
       \/ \A s \in Slides : imageOK[s] /\ imagePathKey[s] = "ok" /\ imageName[s] = s
    /\ mainpc = "idle" /\ mainErr = "none" /\ run = 0
    /\ overwrite = FALSE /\ parallel = FALSE /\ n_slides = 0 /\ removed = FALSE
    /\ poolAlive = FALSE /\ order = <<>>
    /\ pc = [s \in Slides |-> "none"]
    /\ i = [s \in Slides |-> 0]
    /\ n_tiles = [s \in Slides |-> 0]
    /\ n_failed_tiles = [s \in Slides |-> 0]
    /\ hist = [s \in Slides |-> "none"]
    /\ output_dir = FALSE
    /\ output_tiles_dir = [s \in Slides |-> FALSE]
    /\ dataset_csv_file = [s \in Slides |-> <<>>]
    /\ failed_tiles_file = [s \in Slides |-> <<>>]
    /\ csvRun = [s \in Slides |-> 0]
    /\ png = [s \in Slides |-> [t \in Tiles |-> 0]]
    /\ thumbs = [f \in Names \X Kinds |-> 0]
    /\ merged = <<>> /\ mergedRun = 0
    /\ writes = {} /\ warnings = {}

(***************************************************************************)
(* main                                                                    *)
(***************************************************************************)

\* a call of main; the previous call has ended and no worker of it is left
StartMain(ow, par, n) ==
    /\ mainpc \in {"idle", "returned", "raised", "killed"}
    /\ run < MaxRuns
    /\ mainpc = "returned" \/ ~poolAlive
    /\ \A s \in Slides : pc[s] \notin InProgress
    /\ run' = run + 1
    /\ overwrite' = ow /\ parallel' = par /\ n_slides' = n
    /\ mainpc' = "precheck" /\ mainErr' = "none"
    /\ removed' = FALSE /\ poolAlive' = FALSE
    /\ order' = <<>> /\ writes' = {}
    /\ pc' = [s \in Slides |-> IF s <= n THEN "queued" ELSE "none"]
    /\ i' = [s \in Slides |-> 0]
    /\ n_tiles' = [s \in Slides |-> 0]
    /\ n_failed_tiles' = [s \in Slides |-> 0]
    /\ warnings' = {}
    /\ UNCHANGED <<toolvars, tilevars, inputs, hist, slidefs, rootfs>>

\* for sample in dataset: assert Path(sample["image_path"]).exists()
PreCheck ==
    /\ mainpc = "precheck"
    /\ LET bad == {s \in Selected : imagePathKey[s] # "ok"}
           first == CHOOSE s \in bad : \A t \in bad : s <= t
       IN IF bad = {}
          THEN mainpc' = "setup" /\ mainErr' = "none"
          ELSE /\ mainpc' = "raised"
               /\ mainErr' = IF imagePathKey[first] = "nokey" THEN "KeyError" ELSE "AssertionError"
    /\ UNCHANGED <<toolvars, tilevars, inputs, warnings, run, overwrite, parallel, n_slides, removed, poolAlive, order,
                   locals, slidefs, rootfs, writes>>

\* variant: the existing output tree is never deleted
ShouldRemoveNever == FALSE

\* if overwrite and output_dir.exists():
ShouldRemove == overwrite /\ output_dir

\* if overwrite and output_dir.exists(): shutil.rmtree(output_dir); then the mkdirs
Setup ==
    /\ mainpc = "setup"
    /\ removed' = ShouldRemove
    /\ IF ShouldRemove
       THEN /\ output_tiles_dir' = [s \in Slides |-> FALSE]
            /\ dataset_csv_file' = [s \in Slides |-> <<>>]
            /\ failed_tiles_file' = [s \in Slides |-> <<>>]
            /\ csvRun' = [s \in Slides |-> 0]
            /\ png' = [s \in Slides |-> [t \in Tiles |-> 0]]
            /\ thumbs' = [f \in Names \X Kinds |-> 0]
            /\ merged' = <<>> /\ mergedRun' = 0
            /\ hist' = [s \in Slides |-> "none"]
       ELSE UNCHANGED <<slidefs, thumbs, merged, mergedRun, hist>>
    /\ output_dir' = TRUE
    /\ mainpc' = "map"
    /\ poolAlive' = parallel
    /\ UNCHANGED <<toolvars, tilevars, inputs, warnings, mainErr, run, overwrite, parallel, n_slides, order,
                   pc, i, n_tiles, n_failed_tiles, writes>>

\* a slide may take a step: in a pool worker, or as the next item of map(), or
\* in the call prepare_single_slide_dataset makes for its one slide
CanRun(s) ==
    \/ /\ s \in Selected
       /\ IF parallel
          THEN poolAlive
          ELSE mainpc = "map" /\ \A t \in Selected : t < s => pc[t] \in Returned
    \/ single_pc = "call" /\ s = 1

\* variant: main goes on after the first result
JoinAfterFirst == \E s \in Selected : pc[s] \in Returned

\* variant: the lazy iterator is never consumed, main does not wait
JoinAtOnce == TRUE

\* list(map_func(func, dataset)) has consumed every result
JoinReady == \A s \in Selected : pc[s] \in Returned

\* the list(...) ends normally; if parallel: pool.close(), which stops no worker
MainJoin ==
    /\ mainpc = "map"
    /\ JoinReady
    /\ mainpc' = "merge"
    /\ UNCHANGED <<toolvars, tilevars, inputs, warnings, mainErr, run, overwrite, parallel, n_slides, removed, poolAlive,
                   order, locals, slidefs, rootfs, writes>>

\* imap_unordered hands the exception of a failed slide to main, which does not catch it
MainRaise ==
    /\ parallel /\ mainpc = "map"
    /\ \E s \in Selected : pc[s] = "raised"
    /\ mainpc' = "raised" /\ mainErr' = "slide"
    /\ UNCHANGED <<toolvars, tilevars, inputs, warnings, run, overwrite, parallel, n_slides, removed, poolAlive, order,
                   locals, slidefs, rootfs, writes>>

(***************************************************************************)
(* merge_dataset_csv_files                                                 *)
(***************************************************************************)

\* the slide directories that hold a dataset.csv
ManifestDirs == {s \in Slides : output_tiles_dir[s]}

Pos(p, s) == CHOOSE k \in 1..Len(p) : p[k] = s

\* the orders the per-slide manifests can be merged in: the slides of this run
\* in processing order, the manifests left by earlier runs anywhere
MergeOrders ==
    {p \in [1..Cardinality(ManifestDirs) -> ManifestDirs] :
        /\ \A a, b \in 1..Cardinality(ManifestDirs) : a # b => p[a] # p[b]
        /\ \A a, b \in 1..Len(order) : a < b => Pos(p, order[a]) < Pos(p, order[b])}

TagRows(s) == [k \in 1..Len(Rows(dataset_csv_file[s])) |-> <<s, Rows(dataset_csv_file[s])[k]>>]

RECURSIVE MergeRows(_)
MergeRows(p) == IF p = <<>> THEN <<>> ELSE TagRows(Head(p)) \o MergeRows(Tail(p))

\* merge_dataset_csv_files(output_dir), the last statement of main
Merge ==
    /\ mainpc = "merge"
    /\ \E p \in MergeOrders : merged' = MergeRows(p)
    /\ mergedRun' = run
    /\ mainpc' = "returned"
    /\ UNCHANGED <<toolvars, tilevars, inputs, warnings, mainErr, run, overwrite, parallel, n_slides, removed, poolAlive,
                   order, locals, slidefs, output_dir, thumbs, writes>>

(***************************************************************************)
(* process_one_slide                                                       *)
(***************************************************************************)

\* Check-existing: the slide directory holds a manifest
is_already_processed(s) == output_tiles_dir[s] /\ Len(dataset_csv_file[s]) >= 1

\* variant: a manifest without rows does not count as processed
SkipIfRowsPresent(s) == is_already_processed(s) /\ Len(dataset_csv_file[s]) > 1

\* if is_already_processed(output_tiles_dir): return output_tiles_dir
SkipIfProcessed(s) == is_already_processed(s)

\* an exception ends the call: its locals are gone
Leave(s, state) ==
    /\ pc' = [pc EXCEPT ![s] = state]
    /\ hist' = [hist EXCEPT ![s] = state]
    /\ i' = [i EXCEPT ![s] = 0]
    /\ n_tiles' = [n_tiles EXCEPT ![s] = 0]
    /\ n_failed_tiles' = [n_failed_tiles EXCEPT ![s] = 0]

\* an exception leaves process_one_slide; under map() it leaves main as well
Raise(s) ==
    /\ Leave(s, "raised")
    /\ IF parallel
       THEN UNCHANGED <<mainpc, mainErr>>
       ELSE mainpc' = "raised" /\ mainErr' = "slide"

\* csv_columns = (*keys_to_save, *metadata_keys): the header line of dataset.csv.
\* A header line is a number <= 0, minus the number of the key set the
\* slide_<key> columns come from; Header is the line of key set 0
csv_columns(s) == Header - metadata[s]

\* STEP 0: the skip, or the two csv files opened for writing with their headers
Check(s) ==
    /\ CanRun(s) /\ pc[s] = "queued"
    /\ IF SkipIfProcessed(s)
       THEN /\ pc' = [pc EXCEPT ![s] = "skipped"]
            /\ order' = Append(order, s)
            /\ UNCHANGED <<hist, slidefs, writes>>
       ELSE /\ pc' = [pc EXCEPT ![s] = "load"]
            /\ hist' = [hist EXCEPT ![s] = "started"]
            /\ output_tiles_dir' = [output_tiles_dir EXCEPT ![s] = TRUE]
            /\ dataset_csv_file' = [dataset_csv_file EXCEPT ![s] = <<csv_columns(s)>>]
            /\ failed_tiles_file' = [failed_tiles_file EXCEPT ![s] = <<Header>>]
            /\ csvRun' = [csvRun EXCEPT ![s] = run]
            /\ writes' = writes \cup {<<s, CsvPath(s)>>, <<s, FailedPath(s)>>}
            /\ UNCHANGED <<order, png>>
    /\ UNCHANGED <<toolvars, tilevars, inputs, warnings, mainpc, mainErr, run, overwrite, parallel, n_slides, removed,
                   poolAlive, i, n_tiles, n_failed_tiles, rootfs>>

\* STEP 1: loader(sample) reads sample["image"]; a missing or undecodable file raises
LoadRaises(s) ==
    /\ Raise(s)
    /\ UNCHANGED <<thumbs, writes>>

\* save_thumbnail(..._original.png) or plt.savefig(..._roi.png) raises: neither
\* is in a try block
ThumbnailRaises(s) ==
    /\ imageOK[s]
    /\ Raise(s)
    /\ \/ UNCHANGED <<thumbs, writes>>
       \/ /\ thumbs' = [thumbs EXCEPT ![<<imageName[s], "original">>] = run]
          /\ writes' = writes \cup {<<s, ThumbPath(s, "original")>>}

\* both thumbnails are saved, then STEP 2: generate_tiles returns the surviving
\* tiles and n_tiles = image_tiles.shape[0]
Tiled(s) ==
    /\ imageOK[s]
    /\ thumbs' = [thumbs EXCEPT ![<<imageName[s], "original">>] = run,
                                ![<<imageName[s], "roi">>] = run]
    /\ writes' = writes \cup {<<s, ThumbPath(s, "original")>>, <<s, ThumbPath(s, "roi")>>}
    /\ \E n \in 0..MaxTiles : n_tiles' = [n_tiles EXCEPT ![s] = n]
    /\ i' = [i EXCEPT ![s] = 0]
    /\ pc' = [pc EXCEPT ![s] = "persist"]
    /\ UNCHANGED <<mainpc, mainErr, hist, n_failed_tiles>>

\* STEP 1 and STEP 2: load, thumbnails, tiling
LoadAndTile(s) ==
    /\ CanRun(s) /\ pc[s] = "load"
    /\ LoadRaises(s) \/ ThumbnailRaises(s) \/ Tiled(s)
    /\ UNCHANGED <<toolvars, tilevars, inputs, warnings, run, overwrite, parallel, n_slides, removed, poolAlive, order,
                   slidefs, output_dir, merged, mergedRun>>

\* try ... else: the tile image is saved and its row is written to dataset.csv
SaveOK(s) ==
    /\ png' = [png EXCEPT ![s][i[s] + 1] = run]
    /\ dataset_csv_file' = [dataset_csv_file EXCEPT ![s] = Append(@, i[s] + 1)]
    /\ writes' = writes \cup {<<s, TilePath(s, i[s] + 1)>>}
    /\ i' = [i EXCEPT ![s] = @ + 1]
    /\ UNCHANGED <<failed_tiles_file, n_failed_tiles, pc, n_tiles, hist, mainpc, mainErr>>

\* variant: the failed tile is counted but not written to failed_tiles.csv
SaveFailedUnrecorded(s) ==
    /\ n_failed_tiles' = [n_failed_tiles EXCEPT ![s] = @ + 1]
    /\ i' = [i EXCEPT ![s] = @ + 1]
    /\ UNCHANGED <<dataset_csv_file, failed_tiles_file, png, writes, pc, n_tiles, hist,
                   mainpc, mainErr>>

\* variant: no except clause, the exception of the save leaves the function
SaveFailedReraise(s) ==
    /\ Raise(s)
    /\ UNCHANGED <<dataset_csv_file, failed_tiles_file, png, writes>>

\* except Exception: the tile is counted and written to failed_tiles.csv, and the
\* loop goes on
SaveFailed(s) ==
    /\ n_failed_tiles' = [n_failed_tiles EXCEPT ![s] = @ + 1]
    /\ failed_tiles_file' = [failed_tiles_file EXCEPT ![s] = Append(@, i[s] + 1)]
    /\ i' = [i EXCEPT ![s] = @ + 1]
    /\ UNCHANGED <<dataset_csv_file, png, writes, pc, n_tiles, hist, mainpc, mainErr>>

\* STEP 3: one iteration of for i in range(n_tiles)
PersistTile(s) ==
    /\ CanRun(s) /\ pc[s] = "persist" /\ i[s] < n_tiles[s]
    /\ SaveOK(s) \/ SaveFailed(s)
    /\ UNCHANGED <<toolvars, tilevars, inputs, warnings, run, overwrite, parallel, n_slides, removed, poolAlive, order,
                   output_tiles_dir, csvRun, rootfs>>

\* variant: the warning is issued from the second failed tile on
WarnsIncompleteFromSecond(s) == n_failed_tiles[s] > 1

\* if n_failed_tiles > 0: logging.warning(f"{slide_id} is incomplete. ...")
WarnsIncomplete(s) == n_failed_tiles[s] > 0

\* the loop is over: both csv files are closed; STEP 4:
\* visualize_tile_locations(..._roi_tiles.png), the warning, the return.
\* i, n_tiles and n_failed_tiles stay as they were at the return
Finalize(s) ==
    /\ CanRun(s) /\ pc[s] = "persist" /\ i[s] = n_tiles[s]
    /\ thumbs' = [thumbs EXCEPT ![<<imageName[s], "roi_tiles">>] = run]
    /\ writes' = writes \cup {<<s, ThumbPath(s, "roi_tiles")>>}
    /\ pc' = [pc EXCEPT ![s] = IF n_failed_tiles[s] > 0 THEN "failures" ELSE "completed"]
    /\ hist' = [hist EXCEPT ![s] = "completed"]
    /\ order' = Append(order, s)
    /\ warnings' = IF WarnsIncomplete(s)
                   THEN warnings \cup {<<slide_id(s), n_failed_tiles[s]>>}
                   ELSE warnings
    /\ UNCHANGED <<toolvars, tilevars, inputs, mainpc, mainErr, run, overwrite, parallel, n_slides, removed,
                   poolAlive, i, n_tiles, n_failed_tiles, slidefs, output_dir, merged, mergedRun>>

\* the process working on slide s dies: the lines its two open csv files
\* still held in their buffers are lost (flushed: the buffer had been written
\* out), and the locals of the call are gone
Flushed(f, flushed) == IF flushed THEN f ELSE <<>>

KillWorkers(flush) ==
    /\ dataset_csv_file' = [s \in Slides |->
          IF pc[s] \in InProgress THEN Flushed(dataset_csv_file[s], flush[s][1])
          ELSE dataset_csv_file[s]]
    /\ failed_tiles_file' = [s \in Slides |->
          IF pc[s] \in InProgress THEN Flushed(failed_tiles_file[s], flush[s][2])
          ELSE failed_tiles_file[s]]
    /\ pc' = [s \in Slides |-> IF pc[s] \in InProgress THEN "killed" ELSE pc[s]]
    /\ hist' = [s \in Slides |-> IF pc[s] \in InProgress THEN "killed" ELSE hist[s]]
    /\ i' = [s \in Slides |-> IF pc[s] \in InProgress THEN 0 ELSE i[s]]
    /\ n_tiles' = [s \in Slides |-> IF pc[s] \in InProgress THEN 0 ELSE n_tiles[s]]
    /\ n_failed_tiles' = [s \in Slides |-> IF pc[s] \in InProgress THEN 0 ELSE n_failed_tiles[s]]

FlushChoices ==
    {fl \in [Slides -> BOOLEAN \X BOOLEAN] :
        \A s \in Slides : pc[s] \notin InProgress => fl[s] = <<TRUE, TRUE>>}

\* the job is killed while a slide is being processed: main and every worker die
Kill ==
    /\ mainpc = "map"
    /\ \E s \in Slides : pc[s] \in InProgress
    /\ \E fl \in FlushChoices : KillWorkers(fl)
    /\ mainpc' = "killed"
    /\ poolAlive' = FALSE
    /\ UNCHANGED <<toolvars, tilevars, inputs, warnings, mainErr, run, overwrite, parallel, n_slides, removed, order,
                   output_tiles_dir, csvRun, png, rootfs, writes>>

\* main was left by an exception, without pool.close() or pool.join(): the pool
\* is torn down with it, its workers are terminated and its queue is dropped
PoolTerminate ==
    /\ parallel /\ poolAlive
    /\ mainpc = "raised"
    /\ \E fl \in FlushChoices : KillWorkers(fl)
    /\ poolAlive' = FALSE
    /\ UNCHANGED <<toolvars, tilevars, inputs, warnings, mainpc, mainErr, run, overwrite, parallel, n_slides, removed, order,
                   output_tiles_dir, csvRun, png, rootfs, writes>>

(***************************************************************************)
(* generate_tiles, on the pixels of one ROI                                 *)
(*                                                                         *)
(* An image is the sequence of its rows, a row the sequence of its pixels, *)
(* a pixel its luminance.  A location is <<y, x>>.  A ratio is             *)
(* <<numerator, denominator>>.                                             *)
(***************************************************************************)

MaxSide == 3
MaxTileSize == 2

Luminances == {100, 255}
Images ==
    UNION {[1..h -> [1..w -> Luminances]] : <<h, w>> \in (1..MaxSide) \X (1..MaxSide)}
ForegroundThresholds == {100, 200}
OccupancyThresholds == {<<0, 1>>, <<1, 4>>, <<1, 2>>, <<1, 1>>}
Origins == {<<0, 0>>, <<-4, 5>>}
Scales == {<<1, 1>>, <<11, 8>>}

CeilDiv(a, b) == (a + b - 1) \div b

\* Tile Generator: the grid of tile_size x tile_size tiles in scan order, row by
\* row, a pixel outside the array being constant_values
tile_array_2d(array, size, constant_values) ==
    LET H == Len(array)
        W == Len(array[1])
        nW == CeilDiv(W, size)
        n == CeilDiv(H, size) * nW
        y(k) == ((k - 1) \div nW) * size
        x(k) == ((k - 1) % nW) * size
        px(r, c) == IF r <= H /\ c <= W THEN array[r][c] ELSE constant_values
    IN [tiles |-> [k \in 1..n |-> [a \in 1..size |-> [b \in 1..size |->
                      px(y(k) + a, x(k) + b)]]],
        coords |-> [k \in 1..n |-> <<y(k), x(k)>>]]

\* Foreground Filter: a pixel is foreground iff its luminance is below the threshold
segment_foreground(tiles, threshold) ==
    [k \in DOMAIN tiles |-> [a \in DOMAIN tiles[k] |-> [b \in DOMAIN tiles[k][a] |->
        tiles[k][a][b] < threshold]]]

\* the foreground pixels of a tile over its pixels
Occupancy(mask) ==
    <<Cardinality({p \in (DOMAIN mask) \X (DOMAIN mask) : mask[p[1]][p[2]]}),
      Len(mask) * Len(mask)>>

\* ratio p is at least ratio q
AtLeast(p, q) == p[1] * q[2] >= q[1] * p[2]

\* variant: a tile is selected only above the threshold
ROI_occupancy_filtering_strict(foreground_mask, threshold) ==
    [selected |-> [k \in DOMAIN foreground_mask |->
                      ~AtLeast(threshold, Occupancy(foreground_mask[k]))],
     occupancies |-> [k \in DOMAIN foreground_mask |-> Occupancy(foreground_mask[k])]]

\* Foreground Filter: a tile is selected iff occupancy >= occupancy_threshold
ROI_occupancy_filtering(foreground_mask, threshold) ==
    [selected |-> [k \in DOMAIN foreground_mask |->
                      AtLeast(Occupancy(foreground_mask[k]), threshold)],
     occupancies |-> [k \in DOMAIN foreground_mask |-> Occupancy(foreground_mask[k])]]

\* Empty-Tile Filter: a tile without pixel variance is flagged
check_empty_tiles(tiles) ==
    [k \in DOMAIN tiles |->
        \A a, b, c, d \in DOMAIN tiles[k] : tiles[k][a][b] = tiles[k][c][d]]

\* variant: np.pad with its default constant_values
TileArrayCallDefaultFill(image, size) == tile_array_2d(image, size, 0)

\* tile_array_2d(slide_image, tile_size=tile_size, constant_values=255)
TileArrayCall(image, size) == tile_array_2d(image, size, 255)

\* variant: the Empty-Tile Filter is left out
SelectedWithoutEmptyFilter(sel, empty) == sel

\* variant: a tile is kept when either filter keeps it
SelectedByEither(sel, empty) == [k \in DOMAIN sel |-> sel[k] \/ ~empty[k]]

\* selected = selected & (~empty_tile_bool_mask)
SelectedAndNotEmpty(sel, empty) == [k \in DOMAIN sel |-> sel[k] /\ ~empty[k]]

\* the j-th index, counting upwards, at which the mask holds
NthTrue(mask, j) ==
    CHOOSE k \in DOMAIN mask :
        mask[k] /\ Cardinality({m \in DOMAIN mask : mask[m] /\ m <= k}) = j

NTrue(mask) == Cardinality({k \in DOMAIN mask : mask[k]})

\* variant: the kept entries come out last first
BoolIndexReversed(array, mask) ==
    [j \in 1..NTrue(mask) |-> array[NthTrue(mask, NTrue(mask) + 1 - j)]]

\* array[selected]: the entries at which the mask holds, in their order
BoolIndex(array, mask) == [j \in 1..NTrue(mask) |-> array[NthTrue(mask, j)]]

\* generate_tiles: its locals when it returns
generate_tiles(image, size, fg_threshold, occ_threshold) ==
    LET tiled == TileArrayCall(image, size)
        foreground_mask == segment_foreground(tiled.tiles, fg_threshold)
        filtered == ROI_occupancy_filtering(foreground_mask, occ_threshold)
        empty_tile_bool_mask == check_empty_tiles(tiled.tiles)
        selected == SelectedAndNotEmpty(filtered.selected, empty_tile_bool_mask)
    IN [grid_tiles |-> tiled.tiles,
        grid_locations |-> tiled.coords,
        grid_occupancies |-> filtered.occupancies,
        occupancy_selected |-> filtered.selected,
        empty_tile_bool_mask |-> empty_tile_bool_mask,
        selected |-> selected,
        image_tiles |-> BoolIndex(tiled.tiles, selected),
        tile_locations |-> BoolIndex(tiled.coords, selected),
        occupancies |-> BoolIndex(filtered.occupancies, selected),
        n_discarded |-> Len(selected) - NTrue(selected),
        warned |-> NTrue(selected) = 0]

\* float.astype(int): the fraction of num / den is dropped, towards zero
astype_int(num, den) == IF num >= 0 THEN num \div den ELSE -((-num) \div den)

\* variant: the origin of the ROI is not added
ToLevel0WithoutOrigin(rel, sc, o) ==
    <<astype_int(sc[1] * rel[1], sc[2]), astype_int(sc[1] * rel[2], sc[2])>>

\* (scale * rel_tile_locations + origin).astype(int), for one location
ToLevel0(rel, sc, o) ==
    <<astype_int(sc[1] * rel[1] + sc[2] * o[1], sc[2]),
      astype_int(sc[1] * rel[2] + sc[2] * o[2], sc[2])>>

\* STEP 1 and STEP 2 on the pixels of the ROI: load, both thumbnails,
\* generate_tiles, the level-0 locations and n_tiles = image_tiles.shape[0]
LoadAndGenerate(s) ==
    /\ CanRun(s) /\ pc[s] = "load" /\ imageOK[s]
    /\ slide_image # <<>>
    /\ thumbs' = [thumbs EXCEPT ![<<imageName[s], "original">>] = run,
                                ![<<imageName[s], "roi">>] = run]
    /\ writes' = writes \cup {<<s, ThumbPath(s, "original")>>, <<s, ThumbPath(s, "roi")>>}
    /\ gt' = generate_tiles(slide_image, tile_size, foreground_threshold, occupancy_threshold)
    /\ \E o \in Origins, sc \in Scales :
          /\ origin' = o /\ scale' = sc
          /\ tile_locations' = [j \in DOMAIN gt'.tile_locations |->
                                   ToLevel0(gt'.tile_locations[j], sc, o)]
    /\ n_tiles' = [n_tiles EXCEPT ![s] = Len(gt'.image_tiles)]
    /\ i' = [i EXCEPT ![s] = 0]
    /\ pc' = [pc EXCEPT ![s] = "persist"]
    /\ UNCHANGED <<toolvars, inputs, warnings, mainvars, hist, n_failed_tiles, slidefs, output_dir, merged,
                   mergedRun, slide_image, tile_size, foreground_threshold,
                   occupancy_threshold, single_pc, single_err, coords>>

\* dataset_df = pd.read_csv(dataset_csv_path); assert len(dataset_df) > 0;
\* failed_df = pd.read_csv(failed_csv_path); assert len(failed_df) == 0
SingleAsserts ==
    /\ single_pc = "call" /\ pc[1] \in Returned
    /\ IF Len(Rows(dataset_csv_file[1])) > 0 /\ Len(Rows(failed_tiles_file[1])) = 0
       THEN single_pc' = "returned" /\ single_err' = "none"
       ELSE single_pc' = "raised" /\ single_err' = "AssertionError"
    /\ UNCHANGED <<toolvars, inputs, warnings, mainvars, locals, slidefs, rootfs, writes, slide_image, tile_size,
                   foreground_threshold, occupancy_threshold, gt, origin, scale,
                   tile_locations, coords>>

\* the name of a tile image, '<x>x_<y>y.png', as its two parts
TileFileName(loc) == <<[n |-> loc[2], mark |-> "x"], [n |-> loc[1], mark |-> "y"]>>

\* x, y = img_name.split('.png')[0].split('_'); int(x.replace('x', '')),
\* int(y.replace('y', '')); 'coords': [x, y]
getitem_coords(img_name) ==
    LET x == img_name[1].n
        y == img_name[2].n
    IN <<x, y>>

\* TileEncodingDataset.__getitem__ for the image of a saved tile
GetItem(t) ==
    /\ pc[1] \in {"completed", "failures"}
    /\ coords = <<>>
    /\ t \in RowSet(dataset_csv_file[1])
    /\ coords' = <<t, getitem_coords(TileFileName(tile_locations[t]))>>
    /\ UNCHANGED <<toolvars, inputs, warnings, mainvars, locals, slidefs, rootfs, writes, slide_image, tile_size,
                   foreground_threshold, occupancy_threshold, gt, origin, scale,
                   tile_locations, single_pc, single_err>>

\* one slide, followed pixel by pixel: main has reached map() of its one slide,
\* or prepare_single_slide_dataset has built its sample and makes its call
TileInit ==
    /\ NoSplit /\ NoTask /\ NoMeters
    /\ imageOK = [s \in Slides |-> TRUE]
    /\ imagePathKey = [s \in Slides |-> "ok"]
    /\ imageName = [s \in Slides |-> s]
    /\ metadata = [s \in Slides |-> 0]
    /\ mainErr = "none" /\ run = 1
    /\ overwrite = FALSE /\ parallel = FALSE /\ removed = FALSE
    /\ poolAlive = FALSE /\ order = <<>>
    /\ pc = [s \in Slides |-> IF s = 1 THEN "queued" ELSE "none"]
    /\ i = [s \in Slides |-> 0]
    /\ n_tiles = [s \in Slides |-> 0]
    /\ n_failed_tiles = [s \in Slides |-> 0]
    /\ hist = [s \in Slides |-> "none"]
    /\ output_tiles_dir = [s \in Slides |-> FALSE]
    /\ dataset_csv_file = [s \in Slides |-> <<>>]
    /\ failed_tiles_file = [s \in Slides |-> <<>>]
    /\ csvRun = [s \in Slides |-> 0]
    /\ png = [s \in Slides |-> [t \in 1..(MaxSide * MaxSide) |-> 0]]
    /\ thumbs = [f \in Names \X Kinds |-> 0]
    /\ merged = <<>> /\ mergedRun = 0
    /\ writes = {} /\ warnings = {}
    /\ slide_image \in Images
    /\ tile_size \in 1..MaxTileSize
    /\ foreground_threshold \in ForegroundThresholds
    /\ \/ /\ mainpc = "map" /\ n_slides = 1 /\ output_dir = TRUE
          /\ single_pc = "none"
          /\ occupancy_threshold \in OccupancyThresholds
       \/ /\ mainpc = "idle" /\ n_slides = 0 /\ output_dir = FALSE
          /\ single_pc = "call"
          /\ occupancy_threshold = <<1, 10>>
    /\ gt = <<>> /\ origin = <<0, 0>> /\ scale = <<1, 1>> /\ tile_locations = <<>>
    /\ single_err = "none" /\ coords = <<>>

TileNext ==
    \/ Check(1)
    \/ LoadAndGenerate(1)
    \/ PersistTile(1)
    \/ Finalize(1)
    \/ SingleAsserts
    \/ \E t \in 1..(MaxSide * MaxSide) : GetItem(t)

TileSpec == TileInit /\ [][TileNext]_vars

Next ==
    \/ \E ow \in BOOLEAN, par \in BOOLEAN, n \in 0..NSlides : StartMain(ow, par, n)
    \/ PreCheck
    \/ Setup
    \/ MainJoin
    \/ MainRaise
    \/ PoolTerminate
    \/ Kill
    \/ Merge
    \/ \E s \in Slides : Check(s)
    \/ \E s \in Slides : LoadAndTile(s)
    \/ \E s \in Slides : PersistTile(s)
    \/ \E s \in Slides : Finalize(s)

Spec == Init /\ [][Next]_vars

(***************************************************************************)
(* build_data_split_for_csv and write_csv_data of                          *)
(* DownStream/MTL/slide_dataset_tools.py.  A slide id is <<prefix, rest>>: *)
(* its first 12 characters and what follows them.  A column of the csv     *)
(* maps the row number to the value of the cell, "" for an empty cell.     *)
(***************************************************************************)

MaxPatients == 3
MaxSlidesPerPatient == 2
MaxK == 3

Patients == 1..MaxPatients
TestRatios == {<<0, 1>>, <<1, 5>>, <<1, 2>>, <<1, 1>>}
Modes == {"TCGA", "other"}

\* every slide id, the first slide of every patient first
AllSlideIds ==
    [j \in 1..(MaxPatients * MaxSlidesPerPatient) |->
        <<((j - 1) % MaxPatients) + 1, ((j - 1) \div MaxPatients) + 1>>]

\* list(pd.read_csv(task_description_csv)[slide_id_key]) for a csv that lists
\* cnt[p] slides of patient p
SlideLists ==
    {SelectSeq(AllSlideIds, LAMBDA sample : sample[2] <= cnt[sample[1]]) :
        cnt \in [Patients -> 0..MaxSlidesPerPatient]}

\* the pipeline does not run
NoPipeline ==
    /\ NoPixels
    /\ imageOK = [s \in Slides |-> TRUE]
    /\ imagePathKey = [s \in Slides |-> "ok"]
    /\ imageName = [s \in Slides |-> s]
    /\ metadata = [s \in Slides |-> 0]
    /\ mainpc = "idle" /\ mainErr = "none" /\ run = 0
    /\ overwrite = FALSE /\ parallel = FALSE /\ n_slides = 0 /\ removed = FALSE
    /\ poolAlive = FALSE /\ order = <<>>
    /\ pc = [s \in Slides |-> "none"]
    /\ i = [s \in Slides |-> 0]
    /\ n_tiles = [s \in Slides |-> 0]
    /\ n_failed_tiles = [s \in Slides |-> 0]
    /\ hist = [s \in Slides |-> "none"]
    /\ output_dir = FALSE
    /\ output_tiles_dir = [s \in Slides |-> FALSE]
    /\ dataset_csv_file = [s \in Slides |-> <<>>]
    /\ failed_tiles_file = [s \in Slides |-> <<>>]
    /\ csvRun = [s \in Slides |-> 0]
    /\ png = [s \in Slides |-> [t \in Tiles |-> 0]]
    /\ thumbs = [f \in Names \X Kinds |-> 0]
    /\ merged = <<>> /\ mergedRun = 0
    /\ writes = {} /\ warnings = {}

\* n_splits = k if k > 1 else 5
n_splits == IF K > 1 THEN K ELSE 5

\* patient_name = sample[:12] if mode == 'TCGA' else sample[:]
patient_name(sample) == IF mode = "TCGA" THEN <<sample[1], 0>> ELSE sample

\* the keys of patient_wsis in the order the loop at line 95 inserts them
RECURSIVE patient_keys(_)
patient_keys(samples) ==
    IF samples = <<>> THEN <<>>
    ELSE LET before == patient_keys(SubSeq(samples, 1, Len(samples) - 1))
             name == patient_name(samples[Len(samples)])
         IN IF \E j \in DOMAIN before : before[j] = name
            THEN before ELSE Append(before, name)

\* patient_wsis[name]
patient_wsis(name) ==
    SelectSeq(all_wsi_folders, LAMBDA sample : patient_name(sample) = name)

\* the orders random.shuffle can leave a list in
Shuffles(list) ==
    {[j \in DOMAIN list |-> list[perm[j]]] :
        perm \in {f \in [DOMAIN list -> DOMAIN list] :
                     \A a, b \in DOMAIN list : a # b => f[a] # f[b]}}

\* list_of_the_samples_shuffled_by_patients
RECURSIVE list_of_the_samples(_)
list_of_the_samples(names) ==
    IF names = <<>> THEN <<>>
    ELSE patient_wsis(Head(names)) \o list_of_the_samples(Tail(names))

\* name_of_the_samples_shuffled_by_patients
name_of_the_samples(names) ==
    LET list == list_of_the_samples(names)
    IN [j \in DOMAIN list |-> patient_name(list[j])]

\* test_samples_num = int(total_samples_num * test_ratio)
test_samples_num == (Len(all_wsi_folders) * test_ratio[1]) \div test_ratio[2]

\* list[j] of Python for a list index j >= -len(list): a negative index counts
\* from the end
PyItem(list, j) == IF j < 0 THEN list[Len(list) + j + 1] ELSE list[j + 1]

\* the loop for index in range(total_samples_num) at lines 122-128: the value
\* of index at the break, or the last value of the range when it never breaks
IndexAfterLoop(names, last_name) ==
    LET breaks == {j \in 0..(Len(names) - 1) :
                      /\ names[j + 1] # last_name
                      /\ \E m \in 0..j : names[m + 1] = last_name}
    IN IF breaks = {}
       THEN Len(names) - 1
       ELSE CHOOSE j \in breaks : \A m \in breaks : j <= m

\* GroupKFold.split of scikit-learn: the groups, the one with the most samples
\* first (of equally large ones the later in sorted order first), are given one
\* by one to the fold that holds the fewest samples so far
GroupKey(g) == g[1] * (MaxSlidesPerPatient + 1) + g[2]

GroupWeight(groups, g) == Cardinality({j \in DOMAIN groups : groups[j] = g})

GroupsByWeight(groups) ==
    LET G == {groups[j] : j \in DOMAIN groups}
        Earlier(g, h) ==
            \/ GroupWeight(groups, g) > GroupWeight(groups, h)
            \/ /\ GroupWeight(groups, g) = GroupWeight(groups, h)
               /\ GroupKey(g) > GroupKey(h)
    IN [r \in 1..Cardinality(G) |->
           CHOOSE g \in G : Cardinality({h \in G : Earlier(h, g)}) = r - 1]

RECURSIVE Distribute(_, _, _, _)
Distribute(groups, todo, load, assigned) ==
    IF todo = <<>> THEN assigned
    ELSE LET lightest_fold ==
                 CHOOSE f \in DOMAIN load :
                     \A h \in DOMAIN load :
                         load[f] < load[h] \/ (load[f] = load[h] /\ f <= h)
         IN Distribute(groups, Tail(todo),
                       [load EXCEPT ![lightest_fold] = @ + GroupWeight(groups, Head(todo))],
                       assigned \cup {<<Head(todo), lightest_fold>>})

\* list(group_kfold.split(trainval_samples, groups=trainval_patients)):
\* fold -> <<train_idx, val_idx>>
GroupKFoldSplit(groups, n) ==
    LET assigned == Distribute(groups, GroupsByWeight(groups), [f \in 1..n |-> 0], {})
        places == [j \in DOMAIN groups |-> j]
    IN [f \in 1..n |->
           <<SelectSeq(places, LAMBDA j : <<groups[j], f>> \notin assigned),
             SelectSeq(places, LAMBDA j : <<groups[j], f>> \in assigned)>>]

\* trainval_patients
trainval_patients == [j \in DOMAIN trainval_samples |-> patient_name(trainval_samples[j])]

\* list(trainval_samples[train_idx]) and list(trainval_samples[val_idx])
train_data(f) == [j \in DOMAIN folds[f][1] |-> trainval_samples[folds[f][1][j]]]
val_data(f) == [j \in DOMAIN folds[f][2] |-> trainval_samples[folds[f][2][j]]]

\* key, or key + '_{}fold-{}'.format(k, fold + 1)
SplitColumn(f) == IF K = 1 THEN <<"split", 0, 0>> ELSE <<"split", K, f>>

\* write_csv_data: the column is added with empty cells when it is missing,
\* and the rows whose id is in id_data get val
write_csv_data(csv, id_data, key, val) ==
    LET rows == DOMAIN all_wsi_folders
        column == IF key \in DOMAIN csv THEN csv[key] ELSE [r \in rows |-> ""]
    IN [c \in DOMAIN csv \cup {key} |->
           IF c = key
           THEN [r \in rows |->
                    IF \E j \in DOMAIN id_data : id_data[j] = all_wsi_folders[r]
                    THEN val ELSE column[r]]
           ELSE csv[c]]

\* variant: the rows of the test set are not written
FoldWritesWithoutTest(csv, f) ==
    write_csv_data(write_csv_data(csv, train_data(f), SplitColumn(f), "train"),
                   val_data(f), SplitColumn(f), "val")

\* the three calls of write_csv_data for one fold, lines 157-168
FoldWrites(csv, f) ==
    write_csv_data(
        write_csv_data(write_csv_data(csv, train_data(f), SplitColumn(f), "train"),
                       val_data(f), SplitColumn(f), "val"),
        test_data, SplitColumn(f), "test")

\* lines 89-105: the samples are indexed by patient and the patients shuffled
Shuffle ==
    /\ split_pc = "call"
    /\ shuffled_patients' \in Shuffles(patient_keys(all_wsi_folders))
    /\ split_pc' = "shuffled"
    /\ UNCHANGED <<pipevars, taskvars, metervars, all_wsi_folders, mode, test_ratio, K, index,
                   test_data, trainval_samples, folds, fold, task_csv, split_err>>

\* lines 107-135: the test set is cut off the front of the shuffled samples
CutTest ==
    /\ split_pc = "shuffled"
    /\ IF all_wsi_folders = <<>>
       THEN /\ split_pc' = "raised" /\ split_err' = "IndexError"
            /\ UNCHANGED <<index, test_data, trainval_samples>>
       ELSE LET names == name_of_the_samples(shuffled_patients)
                list == list_of_the_samples(shuffled_patients)
                last_name == PyItem(names, test_samples_num - 1)
            IN /\ index' = IndexAfterLoop(names, last_name)
               /\ test_data' = SubSeq(list, 1, index')
               /\ trainval_samples' = SubSeq(list, index' + 1, Len(list))
               /\ split_pc' = "cut"
               /\ UNCHANGED split_err
    /\ UNCHANGED <<pipevars, taskvars, metervars, all_wsi_folders, mode, test_ratio, K,
                   shuffled_patients, folds, fold, task_csv>>

\* lines 137-142: GroupKFold(n_splits).split raises ValueError when there are
\* fewer groups than splits
KFoldSplit ==
    /\ split_pc = "cut"
    /\ IF n_splits > Cardinality({trainval_patients[j] : j \in DOMAIN trainval_patients})
       THEN /\ split_pc' = "raised" /\ split_err' = "ValueError"
            /\ UNCHANGED <<folds, fold>>
       ELSE /\ folds' = GroupKFoldSplit(trainval_patients, n_splits)
            /\ fold' = 1
            /\ split_pc' = "folds"
            /\ UNCHANGED split_err
    /\ UNCHANGED <<pipevars, taskvars, metervars, all_wsi_folders, mode, test_ratio, K,
                   shuffled_patients, index, test_data, trainval_samples, task_csv>>

\* lines 142-170: one iteration of the loop over the folds; with k == 1 the
\* loop is left after the first fold
WriteFold ==
    /\ split_pc = "folds"
    /\ task_csv' = FoldWrites(task_csv, fold)
    /\ IF K = 1 \/ fold = n_splits
       THEN split_pc' = "returned" /\ UNCHANGED fold
       ELSE fold' = fold + 1 /\ UNCHANGED split_pc
    /\ UNCHANGED <<pipevars, taskvars, metervars, all_wsi_folders, mode, test_ratio, K,
                   shuffled_patients, index, test_data, trainval_samples, folds, split_err>>

SplitInit ==
    /\ NoPipeline /\ NoTask /\ NoMeters
    /\ all_wsi_folders \in SlideLists
    /\ mode \in Modes
    /\ test_ratio \in TestRatios
    /\ K \in 1..MaxK
    /\ shuffled_patients = <<>> /\ index = 0
    /\ test_data = <<>> /\ trainval_samples = <<>>
    /\ folds = <<>> /\ fold = 0
    /\ task_csv = [c \in {} |-> <<>>]
    /\ split_pc = "call" /\ split_err = "none"

SplitNext ==
    \/ Shuffle
    \/ CutTest
    \/ KFoldSplit
    \/ WriteFold

SplitSpec == SplitInit /\ [][SplitNext]_vars

(***************************************************************************)
(* build_task_config_settings of DownStream/MTL/slide_dataset_tools.py.    *)
(* A cell value is [typ, text]: its Python type and what str() makes of    *)
(* it.  A dict is a function on its keys.                                  *)
(***************************************************************************)

MaxValues == 3
MaxCalls == 2

Labels == {"a", "b"}
Missing == [typ |-> "str", text |-> "missing in csv"]
CellValues ==
    {[typ |-> "int", text |-> "1"], [typ |-> "str", text |-> "1"],
     [typ |-> "str", text |-> "a"], Missing}

\* the texts float() accepts
FloatTexts == {"1"}

\* list(df[label].value_counts().keys()): the distinct values of a column
ContentLists ==
    UNION {{q \in [1..n -> CellValues] : \A a, b \in 1..n : a # b => q[a] # q[b]} :
              n \in 0..MaxValues}

LabelLists == {<<"a">>, <<"a", "b">>, <<"b", "a">>, <<"a", "a">>}
MaxPossibleValues == {2, 3}

str(value) == value.text

\* valid_content_list = [str(i) for i in content_list if i != 'missing in csv']
valid_content_list(label) ==
    LET kept == SelectSeq(df[label], LAMBDA value : value # Missing)
    IN [j \in DOMAIN kept |-> str(kept[j])]

\* try: for content in valid_content_list: float(content); except: str_flag = True
str_flag(label) ==
    \E j \in DOMAIN valid_content_list(label) : valid_content_list(label)[j] \notin FloatTexts

\* np.eye(n, dtype=int).tolist()[idx], idx counted from 1
EyeRow(n, idx) == [m \in 1..n |-> IF m = idx THEN 1 ELSE 0]

\* one_hot_table[label][content] = value_list[idx] for every content in turn:
\* a later assignment to the same key replaces the earlier one
OneHot(valid) ==
    [content \in {valid[j] : j \in DOMAIN valid} |->
        EyeRow(Len(valid),
               CHOOSE j \in DOMAIN valid :
                   valid[j] = content /\ \A m \in DOMAIN valid : valid[m] = content => m <= j)]

\* dict[key] = val
Put(dict, key, val) == [x \in DOMAIN dict \cup {key} |-> IF x = key THEN val ELSE dict[x]]

\* the body of the loop for a label that is not in the tables, lines 184-222
AddLabel(st, label) ==
    LET valid == valid_content_list(label)
    IN IF ~str_flag(label)
       THEN [st EXCEPT !.all_task_dict = Put(@, label, "float"),
                       !.selected_new_labels = Append(@, label)]
       ELSE IF Len(valid) > max_possible_values \/ Len(valid) = 1
       THEN st
       ELSE [st EXCEPT !.all_task_dict = Put(@, label, "list"),
                       !.one_hot_table = Put(@, label, OneHot(valid)),
                       !.selected_new_labels = Append(@, label)]

\* for label in new_labels, with the raise of 'Duplicate label' at line 182
RECURSIVE SettingsLoop(_, _)
SettingsLoop(new_labels, st) ==
    IF new_labels = <<>> THEN st
    ELSE IF \/ Head(new_labels) \in DOMAIN st.one_hot_table
            \/ Head(new_labels) \in DOMAIN st.all_task_dict
    THEN [st EXCEPT !.raised = TRUE]
    ELSE SettingsLoop(Tail(new_labels), AddLabel(st, Head(new_labels)))

\* build_task_config_settings(df, new_labels, one_hot_table, all_task_dict):
\* the two dicts are changed in place
build_task_config_settings(new_labels, one_hot_table, all_task_dict) ==
    SettingsLoop(new_labels,
                 [one_hot_table |-> one_hot_table, all_task_dict |-> all_task_dict,
                  selected_new_labels |-> <<>>, raised |-> FALSE])

CallRecord(new_labels, defaults, end) ==
    [new_labels |-> new_labels, defaults |-> defaults, raised |-> end.raised,
     one_hot_table |-> end.one_hot_table, all_task_dict |-> end.all_task_dict,
     selected_new_labels |-> end.selected_new_labels]

\* a call that leaves one_hot_table and all_task_dict at their defaults: the
\* two dicts made when the def statement ran
CallWithDefaults(new_labels) ==
    /\ Len(calls) < MaxCalls
    /\ LET end == build_task_config_settings(new_labels, default_one_hot_table,
                                             default_all_task_dict)
       IN /\ calls' = Append(calls, CallRecord(new_labels, TRUE, end))
          /\ default_one_hot_table' = end.one_hot_table
          /\ default_all_task_dict' = end.all_task_dict
    /\ UNCHANGED <<pipevars, splitvars, metervars, df, max_possible_values>>

\* the call of build_yaml_config_from_csv: two new empty dicts are passed
CallWithNewTables(new_labels) ==
    /\ Len(calls) < MaxCalls
    /\ LET end == build_task_config_settings(new_labels, [l \in {} |-> <<>>],
                                             [l \in {} |-> ""])
       IN calls' = Append(calls, CallRecord(new_labels, FALSE, end))
    /\ UNCHANGED <<pipevars, splitvars, metervars, df, max_possible_values,
                   default_one_hot_table, default_all_task_dict>>

TaskInit ==
    /\ NoPipeline /\ NoSplit /\ NoMeters
    /\ df \in [Labels -> ContentLists]
    /\ max_possible_values \in MaxPossibleValues
    /\ default_one_hot_table = [l \in {} |-> <<>>]
    /\ default_all_task_dict = [l \in {} |-> ""]
    /\ calls = <<>>

TaskNext ==
    \/ \E new_labels \in LabelLists : CallWithDefaults(new_labels)
    \/ \E new_labels \in LabelLists : CallWithNewTables(new_labels)

TaskSpec == TaskInit /\ [][TaskNext]_vars

(***************************************************************************)
(* SmoothedValue of PreTraining/ROI_pretrianing/SSL_structures/misc.py:    *)
(* one object per process, tracking the same series.                       *)
(***************************************************************************)

NProcs == 2
MaxUpdates == 3
MaxWindow == 2
MaxSyncs == 1

Procs == 1..NProcs
MeterValues == {1, 2}
Weights == {1, 2}

\* deque(maxlen=window_size).append(value)
deque_append(d, value) ==
    IF window_size = 0 THEN d
    ELSE IF Len(d) = window_size THEN Append(Tail(d), value)
    ELSE Append(d, value)

\* variant: the count goes up by one per call
update_count_per_call(c, n) == c + 1

\* self.count += n
update_count(c, n) == c + n

\* self.total += value * n
update_total(t, value, n) == t + value * n

\* update(value, n) on the SmoothedValue of process p
Update(p, value, n) ==
    /\ Len(updates[p]) < MaxUpdates
    /\ deque' = [deque EXCEPT ![p] = deque_append(@, value)]
    /\ count' = [count EXCEPT ![p] = update_count(@, n)]
    /\ total' = [total EXCEPT ![p] = update_total(@, value, n)]
    /\ updates' = [updates EXCEPT ![p] = Append(@, <<value, n>>)]
    /\ UNCHANGED <<pipevars, splitvars, taskvars, window_size, dist_initialized, syncs>>

\* dist.all_reduce(t): the sum of the entry over the processes
RECURSIVE all_reduce(_, _)
all_reduce(t, S) ==
    IF S = {} THEN 0
    ELSE LET p == CHOOSE q \in S : TRUE IN t[p] + all_reduce(t, S \ {p})

\* synchronize_between_processes, called by every process: the early return,
\* or the barrier, the all_reduce of [count, total] and the two assignments
\* (the float64 tensor holds the counts of this range exactly)
Synchronize ==
    /\ syncs < MaxSyncs
    /\ syncs' = syncs + 1
    /\ IF ~dist_initialized
       THEN UNCHANGED <<count, total>>
       ELSE /\ count' = [p \in Procs |-> all_reduce(count, Procs)]
            /\ total' = [p \in Procs |-> all_reduce(total, Procs)]
    /\ UNCHANGED <<pipevars, splitvars, taskvars, window_size, dist_initialized, deque, updates>>

\* global_avg = total / count, as <<numerator, denominator>>
global_avg(p) == IF count[p] = 0 THEN "ZeroDivisionError" ELSE <<total[p], count[p]>>

MeterInit ==
    /\ NoPipeline /\ NoSplit /\ NoTask
    /\ window_size \in 1..MaxWindow
    /\ dist_initialized \in BOOLEAN
    /\ deque = [p \in Procs |-> <<>>]
    /\ count = [p \in Procs |-> 0]
    /\ total = [p \in Procs |-> 0]
    /\ updates = [p \in Procs |-> <<>>]
    /\ syncs = 0

MeterNext ==
    \/ \E p \in Procs, value \in MeterValues, n \in Weights : Update(p, value, n)
    \/ Synchronize

MeterSpec == MeterInit /\ [][MeterNext]_vars

TypeOK ==
    /\ mainpc \in {"idle", "precheck", "setup", "map", "merge", "returned", "raised", "killed"}
    /\ run \in 0..MaxRuns
    /\ \A s \in Slides : pc[s] \in {"none", "queued", "raised", "killed"} \cup InProgress \cup Returned
    /\ \A s \in Slides : i[s] \in 0..MaxTiles /\ n_tiles[s] \in 0..MaxTiles

(***************************************************************************)
(* Properties                                                              *)
(***************************************************************************)

Count(q, t) == Cardinality({k \in 1..Len(q) : q[k] = t})

RECURSIVE RowTotal(_)
RowTotal(S) ==
    IF S = {} THEN 0
    ELSE LET s == CHOOSE x \in S : TRUE
         IN Len(Rows(dataset_csv_file[s])) + RowTotal(S \ {s})

OrderedSlides == {order[k] : k \in 1..Len(order)}

\* C1: once the Persist loop has finished, every surviving tile has exactly one
\* record, a row of dataset.csv or a line of failed_tiles.csv, never both and
\* never neither; the two files together hold n_tiles records and
\* n_failed_tiles is the number of failed-tile lines.
C1_OneRecordPerTile ==
    \A s \in Slides :
        (pc[s] = "persist" /\ i[s] = n_tiles[s]) =>
            /\ \A t \in 1..n_tiles[s] :
                  Count(Rows(dataset_csv_file[s]), t) + Count(Rows(failed_tiles_file[s]), t) = 1
            /\ Len(Rows(dataset_csv_file[s])) + Len(Rows(failed_tiles_file[s])) = n_tiles[s]
            /\ n_failed_tiles[s] = Len(Rows(failed_tiles_file[s]))

C1_Witness ==
    \E s \in Slides :
        /\ pc[s] = "persist" /\ i[s] = n_tiles[s] /\ n_tiles[s] >= 2
        /\ Len(Rows(dataset_csv_file[s])) >= 1
        /\ Len(Rows(failed_tiles_file[s])) >= 1

\* C2: a tile whose save raised is in failed_tiles.csv and not in dataset.csv,
\* the loop goes on to every later tile, and the call returns the slide
\* directory: an exception leaves process_one_slide only before the first tile.
C2_FailedTileIsolated ==
    \A s \in Slides :
        /\ pc[s] \in {"persist", "completed", "failures"} =>
              \A t \in RowSet(failed_tiles_file[s]) :
                  t \notin RowSet(dataset_csv_file[s]) /\ t <= i[s]
        /\ pc[s] \in {"completed", "failures"} =>
              /\ i[s] = n_tiles[s]
              /\ \A t \in 1..n_tiles[s] :
                    t \in RowSet(failed_tiles_file[s]) \cup RowSet(dataset_csv_file[s])
              /\ pc[s] = "failures" <=> RowSet(failed_tiles_file[s]) # {}
        /\ pc[s] = "raised" =>
              Rows(dataset_csv_file[s]) = <<>> /\ Rows(failed_tiles_file[s]) = <<>>

C2_Witness ==
    \E s \in Slides :
        /\ pc[s] = "failures"
        /\ 1 \in RowSet(failed_tiles_file[s])
        /\ 2 \in RowSet(dataset_csv_file[s])

\* C3: a call of process_one_slide without overwrite for a slide whose
\* directory was written by a call that returned (Completed,
\* CompletedWithFailures or zero tiles) is skipped: it goes straight to the
\* return, without load or tiling, and leaves dataset.csv, failed_tiles.csv,
\* the tile images and the thumbnails as they are.
C3_SecondRunSkips ==
    [][\A s \in Slides :
          (run' = run /\ ~overwrite /\ hist[s] = "completed"
             /\ pc[s] = "queued" /\ pc'[s] # "queued")
          => /\ pc'[s] = "skipped"
             /\ dataset_csv_file'[s] = dataset_csv_file[s]
             /\ failed_tiles_file'[s] = failed_tiles_file[s]
             /\ png'[s] = png[s]
             /\ thumbs' = thumbs]_vars

C3_Witness ==
    \E s \in Slides :
        /\ run = 2 /\ ~overwrite
        /\ pc[s] = "skipped" /\ hist[s] = "completed"
        /\ dataset_csv_file[s] = <<Header>>

\* C4: a slide directory left behind by a killed worker is never reported as
\* already processed by Check-existing.
C4_KilledNotProcessed ==
    \A s \in Slides : hist[s] = "killed" => ~is_already_processed(s)

\* C5: the check at the start of main passes exactly when the file at the
\* `image` path of every selected slide exists.
C5_PrecheckCoversImage ==
    /\ mainpc \in {"setup", "map", "merge", "returned"} =>
          \A s \in Selected : imageOK[s]
    /\ mainErr \in {"KeyError", "AssertionError"} =>
          \E s \in Selected : ~imageOK[s]

\* C6: with overwrite=True no slide is skipped and every file of the output
\* tree was written by this call of main; with overwrite=False the setup of
\* main leaves the output tree as it is and a slide that is already processed
\* is skipped.
C6_Fresh ==
    /\ \A s \in Slides :
          /\ pc[s] # "skipped"
          /\ output_tiles_dir[s] => csvRun[s] = run
          /\ \A t \in Tiles : png[s][t] \in {0, run}
    /\ \A f \in Names \X Kinds : thumbs[f] \in {0, run}
    /\ mergedRun \in {0, run}

C6_OverwriteOrResume ==
    /\ []((overwrite /\ mainpc \in {"map", "merge", "returned"}) => C6_Fresh)
    /\ [][(~overwrite /\ mainpc = "setup" /\ mainpc' = "map")
             => /\ slidefs' = slidefs
                /\ <<thumbs, merged, mergedRun>>' = <<thumbs, merged, mergedRun>>]_vars
    /\ [][\A s \in Slides :
             (run' = run /\ ~overwrite /\ is_already_processed(s)
                /\ pc[s] = "queued" /\ pc'[s] # "queued")
             => pc'[s] = "skipped"]_vars

C6_Witness ==
    /\ overwrite /\ removed /\ mainpc = "returned"
    /\ \E s \in Slides : pc[s] \in {"completed", "failures"}
    /\ Len(merged) >= 1

\* C7: merge_dataset_csv_files starts only when process_one_slide has returned
\* for every slide of the dataset and no worker is at work; the merged
\* manifest changes only in steps of main, and no per-slide manifest changes
\* once the merge has started.
C7_MergeAfterAllSlides ==
    /\ [](mainpc = "merge" =>
            /\ \A s \in Selected : pc[s] \in Returned
            /\ \A s \in Slides : pc[s] \notin InProgress)
    /\ [][merged' # merged => mainpc \in {"setup", "merge"}]_vars
    /\ [][(mainpc \in {"merge", "returned"} /\ mainpc' \in {"merge", "returned"})
             => dataset_csv_file' = dataset_csv_file]_vars

C7_Witness ==
    /\ mainpc = "merge" /\ parallel
    /\ Len(order) = NSlides /\ order[1] # 1
    /\ \E s \in Slides : Len(dataset_csv_file[s]) > 1

C9_SiblingsFinish ==
    (parallel /\ mainpc = "raised" /\ mainErr = "slide" /\ ~poolAlive) =>
        \A s \in Selected : pc[s] \in Returned \cup {"raised"}

\* C10: in parallel mode no path is written by the calls of process_one_slide
\* for two different slides.
C10_NoSharedPath ==
    parallel => \A w1, w2 \in writes : w1[2] = w2[2] => w1[1] = w2[1]

(***************************************************************************)
(* Properties of generate_tiles and of the one slide followed by pixels    *)
(***************************************************************************)

\* generate_tiles has returned for the ROI
Generated == slide_image # <<>> /\ pc[1] \in {"persist", "completed", "failures"}

Abs(n) == IF n >= 0 THEN n ELSE -n

\* the places of the returned arrays that hold grid tile k
PlacesOf(k) == {j \in DOMAIN gt.tile_locations : gt.tile_locations[j] = gt.grid_locations[k]}

\* the grid index of the returned tile j
GridIndex(j) == CHOOSE k \in DOMAIN gt.grid_locations : gt.grid_locations[k] = gt.tile_locations[j]

\* the pixels of grid tile k below the foreground threshold
ForegroundPixels(k) ==
    {p \in (1..tile_size) \X (1..tile_size) : gt.grid_tiles[k][p[1]][p[2]] < foreground_threshold}

\* C11: generate_tiles keeps a tile if and only if the Foreground Filter
\* selected it and the Empty-Tile Filter did not flag it: a tile rejected by
\* either filter is in none of the returned arrays, a tile accepted by both is
\* there exactly once, and the returned tiles, locations and occupancies are
\* aligned index by index.
C11_KeptIffBothFilters ==
    Generated =>
        /\ Len(gt.image_tiles) = Len(gt.tile_locations)
        /\ Len(gt.occupancies) = Len(gt.tile_locations)
        /\ \A j \in DOMAIN gt.tile_locations : \E k \in DOMAIN gt.grid_tiles : j \in PlacesOf(k)
        /\ \A k \in DOMAIN gt.grid_tiles :
              IF gt.occupancy_selected[k] /\ ~gt.empty_tile_bool_mask[k]
              THEN /\ Cardinality(PlacesOf(k)) = 1
                   /\ \A j \in PlacesOf(k) :
                         /\ gt.image_tiles[j] = gt.grid_tiles[k]
                         /\ gt.occupancies[j] = gt.grid_occupancies[k]
              ELSE PlacesOf(k) = {}

C11_Witness ==
    /\ Generated
    /\ \E k \in DOMAIN gt.grid_tiles : gt.occupancy_selected[k] /\ gt.empty_tile_bool_mask[k]
    /\ \E k \in DOMAIN gt.grid_tiles : ~gt.occupancy_selected[k] /\ ~gt.empty_tile_bool_mask[k]
    /\ \E k \in DOMAIN gt.grid_tiles : k > 1 /\ PlacesOf(k) # {}

C13_BackgroundDiscarded ==
    Generated =>
        \A k \in DOMAIN gt.grid_tiles :
            ForegroundPixels(k) = {} =>
                /\ gt.grid_occupancies[k][1] = 0
                /\ occupancy_threshold[1] > 0 =>
                      /\ PlacesOf(k) = {}
                      /\ \A t \in RowSet(dataset_csv_file[1]) :
                            gt.tile_locations[t] # gt.grid_locations[k]

C13_Witness ==
    /\ Generated /\ pc[1] = "completed"
    /\ occupancy_threshold[1] > 0
    /\ \E k \in DOMAIN gt.grid_tiles : ForegroundPixels(k) = {}
    /\ RowSet(dataset_csv_file[1]) # {}

\* C14: for an ROI of height H and width W the Tile Generator produces
\* ceil(H/tile_size) * ceil(W/tile_size) tiles, each tile_size x tile_size, on
\* a grid without overlap that covers the ROI, and every pixel of a tile that
\* lies outside the ROI has the fill value 255.
C14_GridOfPaddedTiles ==
    Generated =>
        LET H == Len(slide_image)
            W == Len(slide_image[1])
            n == Len(gt.grid_tiles)
        IN /\ \E nH, nW \in 1..MaxSide :
                 /\ n = nH * nW
                 /\ (nH - 1) * tile_size < H /\ H <= nH * tile_size
                 /\ (nW - 1) * tile_size < W /\ W <= nW * tile_size
           /\ \A k \in 1..n :
                 /\ Len(gt.grid_tiles[k]) = tile_size
                 /\ \A a \in 1..tile_size : Len(gt.grid_tiles[k][a]) = tile_size
                 /\ gt.grid_locations[k][1] % tile_size = 0
                 /\ gt.grid_locations[k][2] % tile_size = 0
                 /\ \A m \in 1..n : m # k => gt.grid_locations[m] # gt.grid_locations[k]
                 /\ \A a, b \in 1..tile_size :
                       LET r == gt.grid_locations[k][1] + a
                           c == gt.grid_locations[k][2] + b
                       IN gt.grid_tiles[k][a][b] =
                             IF r <= H /\ c <= W THEN slide_image[r][c] ELSE 255
           /\ \A r \in 1..H, c \in 1..W :
                 \E k \in 1..n :
                     /\ gt.grid_locations[k][1] < r /\ r <= gt.grid_locations[k][1] + tile_size
                     /\ gt.grid_locations[k][2] < c /\ c <= gt.grid_locations[k][2] + tile_size

C14_Witness ==
    /\ Generated
    /\ Len(slide_image) = 3 /\ Len(slide_image[1]) = 2 /\ tile_size = 2
    /\ Len(gt.grid_tiles) = 2
    /\ gt.grid_tiles[2][2] = <<255, 255>>
    /\ gt.grid_tiles[2][1][1] = 100

C16_ZeroTilesNoError ==
    (Generated /\ pc[1] \in Returned /\ n_tiles[1] = 0) =>
        /\ gt.warned
        /\ pc[1] = "completed"
        /\ dataset_csv_file[1] = <<Header>> /\ failed_tiles_file[1] = <<Header>>
        /\ single_err = "none"

\* C17: a step of process_one_slide in which the saving of a thumbnail fails
\* does not end the call: the slide goes on to the Tile and Persist steps.
C17_ThumbnailFailureNotFatal ==
    [][\A s \in Slides :
          (/\ pc[s] = "load"
           /\ <<s, ThumbPath(s, "original")>> \in writes'
           /\ <<s, ThumbPath(s, "roi")>> \notin writes')
          => pc'[s] # "raised"]_vars

\* a 2 x 2 grid of whole tiles of one gray below the foreground threshold
GrayScenario ==
    /\ Generated
    /\ Len(slide_image) = 2 * tile_size /\ Len(slide_image[1]) = 2 * tile_size
    /\ \A r, c \in 1..(2 * tile_size) :
          slide_image[r][c] = slide_image[1][1] /\ slide_image[r][c] < foreground_threshold
    /\ occupancy_threshold[1] > 0

C19_CoordsInYXOrder ==
    coords # <<>> => coords[2] = tile_locations[coords[1]]

\* C20: the rows of the slide's dataset.csv are in grid-scan order of their
\* tiles, and when the slide is done they are the surviving tiles in that
\* order without the failed ones: the input and the failed saves fix the rows.
C20_RowsInGridScanOrder ==
    Generated =>
        LET rows == Rows(dataset_csv_file[1])
        IN /\ \A a, b \in 1..Len(rows) : a < b => GridIndex(rows[a]) < GridIndex(rows[b])
           /\ \A a, b \in DOMAIN gt.tile_locations : a < b => GridIndex(a) < GridIndex(b)
           /\ pc[1] \in {"completed", "failures"} =>
                 rows = SelectSeq([j \in 1..n_tiles[1] |-> j],
                                  LAMBDA j : j \notin RowSet(failed_tiles_file[1]))

C20_Witness ==
    /\ Generated /\ pc[1] = "failures"
    /\ Rows(dataset_csv_file[1]) = <<1, 3>>
    /\ Rows(failed_tiles_file[1]) = <<2>>
    /\ GridIndex(1) # 1

\* C21: the manifests written by process_one_slide in one run of main, the ones
\* the merge reads, all start with the same header line: the fixed columns
\* followed by the same slide_<key> columns, whatever the descriptors are.
C21_SameColumnSchema ==
    \A s, u \in Slides :
        (/\ csvRun[s] = run /\ csvRun[u] = run
         /\ Len(dataset_csv_file[s]) >= 1 /\ Len(dataset_csv_file[u]) >= 1)
        => dataset_csv_file[s][1] = dataset_csv_file[u][1]

\* C22: a slide with a failed tile is reported and not raised: the call returns
\* the slide directory with both csv files closed and complete, and a warning
\* names the slide and its number of failed tiles; a slide without a failed
\* tile has no warning, and every warning of the run is about a slide that
\* returned with that many failed tiles.
C22_FailuresWarned ==
    /\ \A s \in Slides :
          pc[s] = "failures" =>
              /\ n_failed_tiles[s] > 0
              /\ <<slide_id(s), n_failed_tiles[s]>> \in warnings
              /\ Count(order, s) = 1 /\ output_tiles_dir[s]
              /\ Len(Rows(failed_tiles_file[s])) = n_failed_tiles[s]
              /\ Len(Rows(dataset_csv_file[s])) + n_failed_tiles[s] = n_tiles[s]
    /\ \A s \in Slides :
          pc[s] = "completed" => \A w \in warnings : w[1] # slide_id(s)
    /\ \A w \in warnings :
          \E s \in Slides :
              slide_id(s) = w[1] /\ pc[s] = "failures" /\ w[2] = n_failed_tiles[s]

C22_Witness ==
    \E s, u \in Slides :
        /\ pc[s] = "failures" /\ pc[u] = "completed" /\ n_tiles[u] >= 1
        /\ n_failed_tiles[s] = 1 /\ n_tiles[s] = 2
        /\ warnings = {<<slide_id(s), 1>>}

C26_TileFilesAreManifestRows ==
    \A s \in Slides :
        pc[s] \in {"completed", "failures"} =>
            \A t \in Tiles :
                /\ t \in RowSet(dataset_csv_file[s]) => png[s][t] = run
                /\ png[s][t] # 0 => t \in RowSet(dataset_csv_file[s])

SplitValues == {"train", "val", "test"}

TestRows(c) == {r \in DOMAIN all_wsi_folders : task_csv[c][r] = "test"}

\* C24: when build_data_split_for_csv has returned, the csv has the column
\* `key` for k = 1 and the k columns <key>_<k>fold-<i> for k > 1, every row
\* holds train, val or test in each of them, none is left empty, and the rows
\* marked test are the same in every column.
C24_EveryRowHasSplit ==
    split_pc = "returned" =>
        /\ DOMAIN task_csv = IF K = 1 THEN {<<"split", 0, 0>>}
                             ELSE {<<"split", K, f>> : f \in 1..K}
        /\ \A c \in DOMAIN task_csv :
              /\ \A r \in DOMAIN all_wsi_folders : task_csv[c][r] \in SplitValues
              /\ \A d \in DOMAIN task_csv : TestRows(c) = TestRows(d)

C24_Witness ==
    /\ split_pc = "returned" /\ K = 2
    /\ Len(all_wsi_folders) >= 4
    /\ \A c \in DOMAIN task_csv :
          \A v \in SplitValues : \E r \in DOMAIN all_wsi_folders : task_csv[c][r] = v
    /\ \E r \in DOMAIN all_wsi_folders :
          task_csv[<<"split", 2, 1>>][r] # task_csv[<<"split", 2, 2>>][r]

SamePatient(a, b) == patient_name(a) = patient_name(b)

C27_NoStateBetweenCalls ==
    \A a, b \in DOMAIN calls :
        (/\ b = a + 1
         /\ calls[a].defaults /\ calls[b].defaults
         /\ calls[a].new_labels = calls[b].new_labels
         /\ ~calls[a].raised)
        => /\ ~calls[b].raised
           /\ calls[b].selected_new_labels = calls[a].selected_new_labels
           /\ calls[b].all_task_dict = calls[a].all_task_dict
           /\ calls[b].one_hot_table = calls[a].one_hot_table

\* the values of the column that are not 'missing in csv'
ValidValues(label) == {df[label][j] : j \in DOMAIN df[label]} \ {Missing}

UnitVectors(n) == {EyeRow(n, idx) : idx \in 1..n}

\* C28: when build_task_config_settings has returned, for every new label: it
\* is in selected_new_labels iff it is in all_task_dict; it is 'list' iff it is
\* a key of one_hot_table and 'float' iff every valid value of its column
\* converts to float; and the column of a 'list' label has between 2 and
\* max_possible_values distinct valid values, which one_hot_table[label] maps
\* one-to-one onto the unit vectors of that length.
C28_OutputsConsistent ==
    \A c \in DOMAIN calls :
        ~calls[c].raised =>
            \A j \in DOMAIN calls[c].new_labels :
                LET label == calls[c].new_labels[j]
                    atd == calls[c].all_task_dict
                    oht == calls[c].one_hot_table
                    sel == calls[c].selected_new_labels
                    V == ValidValues(label)
                IN /\ (\E m \in DOMAIN sel : sel[m] = label) <=> label \in DOMAIN atd
                   /\ label \in DOMAIN oht <=> (label \in DOMAIN atd /\ atd[label] = "list")
                   /\ (label \in DOMAIN atd /\ atd[label] = "float")
                         <=> \A v \in V : str(v) \in FloatTexts
                   /\ label \in DOMAIN oht =>
                         /\ Cardinality(V) >= 2 /\ Cardinality(V) <= max_possible_values
                         /\ \A v \in V :
                               /\ str(v) \in DOMAIN oht[label]
                               /\ oht[label][str(v)] \in UnitVectors(Cardinality(V))
                         /\ \A v, w \in V :
                               v # w => oht[label][str(v)] # oht[label][str(w)]

RECURSIVE SumOfN(_)
SumOfN(q) == IF q = <<>> THEN 0 ELSE Head(q)[2] + SumOfN(Tail(q))

RECURSIVE SumOfValueN(_)
SumOfValueN(q) == IF q = <<>> THEN 0 ELSE Head(q)[1] * Head(q)[2] + SumOfValueN(Tail(q))

\* the values of the last n update calls
LastValues(q, n) == [j \in 1..n |-> q[Len(q) - n + j][1]]

Min(a, b) == IF a <= b THEN a ELSE b

\* C29: as long as the counters have not been summed over the processes,
\* count is the sum of the n and total the sum of value * n of the update
\* calls, and global_avg is their quotient; the window always holds the values
\* of the last min(number of updates, window_size) calls, each once; and
\* synchronize_between_processes leaves the window as it is and replaces count
\* and total by their sums over the processes, or changes nothing when
\* distributed mode is not initialized.
C29_SmoothedValueTracks ==
    /\ [](\A p \in DOMAIN updates :
            /\ deque[p] = LastValues(updates[p], Min(Len(updates[p]), window_size))
            /\ (syncs = 0 \/ ~dist_initialized) =>
                  /\ count[p] = SumOfN(updates[p])
                  /\ total[p] = SumOfValueN(updates[p])
                  /\ count[p] # 0 =>
                        global_avg(p)[1] * SumOfN(updates[p])
                           = SumOfValueN(updates[p]) * global_avg(p)[2])
    /\ [][syncs' # syncs =>
            /\ deque' = deque
            /\ IF dist_initialized
               THEN \A p \in Procs :
                       /\ count'[p] = all_reduce(count, Procs)
                       /\ total'[p] = all_reduce(total, Procs)
               ELSE count' = count /\ total' = total]_vars

C29_Witness ==
    /\ syncs = 1 /\ dist_initialized /\ window_size = 2
    /\ updates[1] = <<<<1, 2>>, <<2, 1>>, <<1, 1>>>>
    /\ updates[2] = <<<<2, 2>>>>
    /\ deque[1] = <<2, 1>> /\ deque[2] = <<2>>
    /\ count[1] = 6 /\ count[2] = 6 /\ total[1] = 9 /\ total[2] = 9

====
